---- MODULE Spec2Model ----
(***************************************************************************)
(* Model of u-net.py (josegcpa/tf-u-net): the mode dispatch of main, the   *)
(* orientation ensemble ("tumble") and the large-image reassembly loop.    *)
(***************************************************************************)
EXTENDS Integers, Sequences, FiniteSets, TLC

\* ------------------------------------------------------------------------
\* Bounds of the model
\* ------------------------------------------------------------------------
\* largest height/width of an accumulator (source image minus the crop)
MaxDim == 2
\* number of tiles the tile stream yields at most
MaxTiles == 3
\* largest number of tiles in one batch
MaxBatch == 2
\* largest side of a square image given to the orientation ensemble
MaxSide == 2
\* largest batch_size
MaxN == 2
\* largest number of paths in image_path_list
MaxImages == 3
\* largest number_of_steps
MaxSteps == 4
\* largest save_summary_steps and save_checkpoint_steps
MaxEvery == 2
\* largest epochs
MaxEpochs == 2
\* largest number of tfrecord files, and of records in one file
MaxFiles == 2
MaxRecords == 2
\* largest number of pixels of a tfrecord mask
MaxPix == 2
\* largest class score of a pixel
MaxScore == 2
\* passes over the tfrecord files and batches yielded that are followed
MaxPasses == 2
MaxYield == 2
\* largest number of batches held by the shuffle buffer of batches
MaxBuffer == 2
\* largest number of rows of a csv manifest after its header
MaxRows == 3
\* how much larger than a tile a large image is at most, per axis
MaxExtra == 2

\* ------------------------------------------------------------------------
\* Program constants
\* ------------------------------------------------------------------------
\* total shrinkage of the network's output under VALID padding
Shrink == 184
\* lines 336-338: rows and columns cut from each side of truth and weights
Margin == 92
\* line 208: the mask is decoded as uint8, so its sum is taken modulo this
UInt8Range == 256
\* line 235: buffer_size of the shuffle of batches
BufferSize == 500

VARIABLES
    \* ---- arguments of main
    padding,                  \* 'VALID' or 'SAME'
    n_classes,                \* 2 or 3
    input_height,             \* height of a tile fed to the network
    input_width,              \* width of a tile fed to the network
    \* ---- the upstream generator's record of every source image's shape
    shapes,
    \* ---- control
    pc,
    \* ---- large_predict loop (lines 863-914)
    n_images,                 \* len(batch) of the batch being processed
    i,                        \* index of the next tile of the batch
    curr_image_name,
    mask,
    division_mask,
    large_image_output_name,
    files,                    \* output files: name -> image saved last
    \* ---- history of the loop, used by the properties only
    cover,                    \* per pixel: the tile predictions added so far
    persisted,                \* what the last image.save() was computed from
    acc_tiles,                \* tiles added to the live accumulator
    acc_flushed,              \* acc_tiles at the last flush of it, or -1
    closed,                   \* names whose accumulator has been replaced
    tiles_done,               \* tiles consumed from the stream
    names_seen,               \* history: the identifiers of the tiles so far
    file_tiles,               \* history: per file, the tiles behind its last save
    \* ---- orientation ensemble (lines 316-330 and 409-427)
    net,                      \* which function u_net computes
    originals,                \* the batch as fetched from the stream
    inputs,                   \* the tensor `inputs`
    network,                  \* the tensor `network`
    prediction_network,       \* the tensor `prediction_network`
    \* ---- main: arguments and environment
    mode,                     \* the mode string, as its characters
    ckpt_exists,              \* os.path.exists(checkpoint_path + '.index')
    image_path_list,
    batch_size,
    number_of_steps,
    epochs,                   \* the argument epochs, NoEpochs for None
    save_summary_steps,
    save_checkpoint_steps,
    \* ---- main: what the graph construction chose
    is_training,
    output_types,             \* the layout of a stream element
    unpacked,                 \* the names next_element is unpacked into
    truth_shape,              \* height and width of truth in the graph
    weights_shape,            \* height and width of weights in the graph
    \* ---- main: the run
    branch,                   \* the branch of lines 620-838 that was entered
    dirs,                     \* directories created
    written,                  \* prediction files written
    sess_runs,                \* training/inference steps run
    restored,                 \* the checkpoint was restored
    raised,                   \* the exception main ended with, or "none"
    keep_going,
    time_list,                \* its length
    cursor,                   \* images of image_path_list already fetched
    truth_seen,               \* classes present in the truths fetched
    all_true,                 \* per fetched batch, the classes of its truth
    iou_list,                 \* the batches with an entry in iou_list
    auc_list,                 \* the batches with an entry in auc_list
    f1s_list,                 \* the batches with an entry in f1s_list
    reported,                 \* the final log line was written
    train_i,                  \* the loop variable of the training loop
    summaries,                \* steps a summary was written for
    checkpoints,              \* steps a checkpoint was saved for
    fault,                    \* history: the failure that hit a loop
    \* ---- the tfrecord stream of lines 192-240
    tfrecords,                \* the records of each tfrecord file
    truth_only,
    passes,                   \* passes over the files started so far
    pass_left,                \* records of the current pass not read yet
    shuffle_buffer,           \* buffer of dataset.shuffle(len(image_path_list))
    cur_batch,                \* the batch being assembled by dataset.batch
    batch_buffer,             \* buffer of dataset.shuffle(buffer_size=500)
    yielded,                  \* history: the batches get_next has returned
    exhausted,                \* get_next has signalled the end of the stream
    kept,                     \* history: records that went past the filter
    dropped,                  \* history: records the filter removed
    \* ---- the csv manifest of lines 152-161
    lines,                    \* the rows of the file, each split at ','
    row,                      \* rows read so far
    \* ---- the tiles of a large image
    large_shape,              \* height and width of the large image
    coords,                   \* the tile origins yielded so far
    \* ---- the binarization of lines 429-442, at one pixel
    truth,                    \* the one-hot truth of the pixel
    binarized_network,
    binarized_truth

argVars == <<padding, n_classes, input_height, input_width, shapes>>
loopVars == <<n_images, i, curr_image_name, mask, division_mask,
              large_image_output_name, files>>
histVars == <<cover, persisted, acc_tiles, acc_flushed, closed, tiles_done,
              names_seen, file_tiles>>
tumbleVars == <<net, originals, inputs, network, prediction_network>>
mainArgs == <<mode, ckpt_exists, image_path_list, batch_size, number_of_steps,
              save_summary_steps, save_checkpoint_steps, epochs>>
graphVars == <<is_training, output_types, unpacked, truth_shape,
               weights_shape>>
runVars == <<branch, dirs, written, sess_runs, restored, raised, keep_going,
             time_list, cursor, truth_seen, reported, train_i, summaries,
             checkpoints, fault>>
listVars == <<all_true, iou_list, auc_list, f1s_list>>
mainVars == <<mainArgs, graphVars, runVars, listVars>>
streamVars == <<tfrecords, truth_only, passes, pass_left, shuffle_buffer,
               cur_batch, batch_buffer, yielded, exhausted, kept, dropped>>
manifestVars == <<lines, row>>
tilingVars == <<large_shape, coords>>
metricVars == <<truth, binarized_network, binarized_truth>>
extraVars == <<streamVars, manifestVars, tilingVars, metricVars>>
vars == <<argVars, pc, loopVars, histVars, tumbleVars, mainVars, extraVars>>

\* ------------------------------------------------------------------------
\* Helpers: arrays are functions over index tuples, 0-based as in numpy
\* ------------------------------------------------------------------------
Classes(n) == 0..(n - 1)
Idx(h, w, n) == (0..(h - 1)) \X (0..(w - 1)) \X Classes(n)
Pix(h, w) == (0..(h - 1)) \X (0..(w - 1))

\* the pixels of an array of shape (h, w, n)
PixOf(a) == {<<x[1], x[2]>> : x \in DOMAIN a}
ClassesOf(a) == {x[3] : x \in DOMAIN a}

\* an accumulator that does not start at zero
ZerosAsOnes(h, w, n) == [x \in Idx(h, w, n) |-> 1]

\* np.zeros((final_height, final_width, n_classes))
Zeros(h, w, n) == [x \in Idx(h, w, n) |-> 0]

\* a network whose output is one pixel short
NetOutShort(d) == IF padding = "VALID" THEN d - Shrink - 1 ELSE d - 1

\* size of the network output for an input of size d
NetOut(d) == IF padding = "VALID" THEN d - Shrink ELSE d

\* the source images' paths handed out by the generator
ImagePaths == {<<"in", "A">>, <<"in", "B">>}
\* image_names[i].split(os.sep)[-1]
Basename(path) == path[Len(path)]
ImageNames == {Basename(p) : p \in ImagePaths}

\* class scores a tile predicts (the same at each of its pixels)
Scores(n) == {[k \in 1..n |-> IF k = c THEN 1 ELSE 0] : c \in 1..n}

\* prediction[i,:,:] : the tile's array, of the network's output shape
TileOf(score) ==
    [x \in Idx(NetOut(input_height), NetOut(input_width), n_classes)
        |-> score[x[3] + 1]]

\* remap_tiles: mask[h_1:h_1+th, w_1:w_1+tw, :] += tile
RemapMask(m, h_1, w_1, tile) ==
    [x \in DOMAIN m |->
        IF <<x[1] - h_1, x[2] - w_1, x[3]>> \in DOMAIN tile
        THEN m[x] + tile[<<x[1] - h_1, x[2] - w_1, x[3]>>]
        ELSE m[x]]

\* remap_tiles: division_mask[h_1:h_1+th, w_1:w_1+tw, :] += 1
RemapDivision(d, h_1, w_1, tile) ==
    [x \in DOMAIN d |->
        IF <<x[1] - h_1, x[2] - w_1, x[3]>> \in DOMAIN tile
        THEN d[x] + 1
        ELSE d[x]]

\* the divisor left as it is
KeepZeros(d) == d

\* division_mask[division_mask == 0] = 1
ReplaceZeros(d) == [x \in DOMAIN d |-> IF d[x] = 0 THEN 1 ELSE d[x]]

\* m[p,a]/d[p,a] < m[p,b]/d[p,b], the divisors being positive
QuotLess(m, d, p, a, b) ==
    m[<<p[1], p[2], a>>] * d[<<p[1], p[2], b>>]
        < m[<<p[1], p[2], b>>] * d[<<p[1], p[2], a>>]

\* np.argmax(mask/division_mask, axis = 2) at one pixel: the first maximum
ArgMaxAt(m, d, p) ==
    CHOOSE k \in ClassesOf(m) :
        /\ \A j \in ClassesOf(m) : j < k => QuotLess(m, d, p, j, k)
        /\ \A j \in ClassesOf(m) : j > k => ~QuotLess(m, d, p, k, j)

ArgMax(m, d) == [p \in PixOf(m) |-> ArgMaxAt(m, d, p)]

\* image[image >= 0.5] = 1 ; image[image < 0.5] = 0
Binarize(img) == [p \in DOMAIN img |-> IF img[p] >= 1 THEN 1 ELSE 0]

\* np.stack((image,image,image),axis = 2).astype('uint8')
Stack3(img) == [p \in DOMAIN img |-> <<img[p] % 256, img[p] % 256, img[p] % 256>>]

\* lines 882-886: the image saved when the identifier changes
FlushOnChange(m, d) == Stack3(ArgMax(m, ReplaceZeros(d)))

\* lines 907-913: the image saved after a batch
FlushAfterBatch(m, d) == Stack3(Binarize(ArgMax(m, ReplaceZeros(d))))

\* os.path.join(large_prediction_output, curr_image_name)
OutputName(name) == <<"large_prediction_output", name>>

NoWrite == [event |-> "none"]

\* the variables of the large_predict loop before the loop is entered
LoopIdle ==
    /\ n_images = 0
    /\ i = 0
    /\ curr_image_name = ""
    /\ mask = << >>
    /\ division_mask = << >>
    /\ large_image_output_name = << >>
    /\ files = << >>
    /\ cover = << >>
    /\ persisted = NoWrite
    /\ acc_tiles = 0
    /\ acc_flushed = -1
    /\ closed = {}
    /\ tiles_done = 0
    /\ names_seen = << >>
    /\ file_tiles = << >>

\* the tensors of the graph before any of them is built
TumbleIdle ==
    /\ net = "none"
    /\ originals = << >>
    /\ inputs = << >>
    /\ network = << >>
    /\ prediction_network = << >>

\* the mode strings, character by character
S_train == <<"t", "r", "a", "i", "n">>
S_test == <<"t", "e", "s", "t">>
S_predict == <<"p", "r", "e", "d", "i", "c", "t">>
S_tumble == <<"t", "u", "m", "b", "l", "e">>
S_large_predict == <<"l", "a", "r", "g", "e", "_">> \o S_predict
S_tumble_test == S_tumble \o <<"_">> \o S_test
S_tumble_predict == S_tumble \o <<"_">> \o S_predict

\* lines 983-986: the default of epochs, None
NoEpochs == -1

\* binarized_network and binarized_truth before lines 429-442 assign them
NotSet == -1

\* the tfrecord stream when it is not what runs
StreamIdle ==
    /\ tfrecords = << >>
    /\ truth_only = FALSE
    /\ passes = 0
    /\ pass_left = << >>
    /\ shuffle_buffer = << >>
    /\ cur_batch = << >>
    /\ batch_buffer = << >>
    /\ yielded = << >>
    /\ exhausted = FALSE
    /\ kept = {}
    /\ dropped = {}

\* the csv manifest when none is read
ManifestIdle ==
    /\ lines = << >>
    /\ row = 0

\* the tiles of a large image when none is cut
TilingIdle ==
    /\ large_shape = <<0, 0>>
    /\ coords = << >>

\* the binarization when no metric is built
MetricIdle ==
    /\ truth = << >>
    /\ binarized_network = NotSet
    /\ binarized_truth = NotSet

\* main's variables, but the corpus, when main itself is not what runs
RunIdle ==
    /\ ckpt_exists = TRUE
    /\ number_of_steps = 0
    /\ epochs = NoEpochs
    /\ save_summary_steps = 1
    /\ save_checkpoint_steps = 1
    /\ is_training = FALSE
    /\ output_types = << >>
    /\ unpacked = << >>
    /\ truth_shape = << >>
    /\ weights_shape = << >>
    /\ branch = "none"
    /\ dirs = {}
    /\ written = << >>
    /\ sess_runs = 0
    /\ restored = FALSE
    /\ raised = "none"
    /\ keep_going = FALSE
    /\ time_list = 0
    /\ cursor = 0
    /\ truth_seen = {}
    /\ all_true = << >>
    /\ iou_list = << >>
    /\ auc_list = << >>
    /\ f1s_list = << >>
    /\ reported = FALSE
    /\ train_i = -1
    /\ summaries = << >>
    /\ checkpoints = << >>
    /\ fault = "none"

\* main's variables when main itself is not what runs
MainIdle ==
    /\ image_path_list = << >>
    /\ RunIdle

\* ------------------------------------------------------------------------
\* The large_predict loop
\* ------------------------------------------------------------------------
InitReasm ==
    /\ padding \in {"VALID", "SAME"}
    /\ n_classes \in {2, 3}
    /\ \E th \in 1..MaxDim, tw \in 1..MaxDim :
        /\ input_height = th + (IF padding = "VALID" THEN Shrink ELSE 0)
        /\ input_width = tw + (IF padding = "VALID" THEN Shrink ELSE 0)
        \* two source images, the second of the transposed shape of the first
        /\ \E h \in th..MaxDim, w \in tw..MaxDim :
            /\ th <= w
            /\ tw <= h
            /\ shapes = [name \in ImageNames |->
                    IF name = "A"
                    THEN <<h + (IF padding = "VALID" THEN Shrink ELSE 0),
                           w + (IF padding = "VALID" THEN Shrink ELSE 0)>>
                    ELSE <<w + (IF padding = "VALID" THEN Shrink ELSE 0),
                           h + (IF padding = "VALID" THEN Shrink ELSE 0)>>]
    /\ pc = "fetch"
    /\ LoopIdle
    /\ StreamIdle
    /\ ManifestIdle
    /\ TilingIdle
    /\ MetricIdle
    /\ TumbleIdle
    /\ MainIdle
    /\ mode = S_large_predict
    /\ batch_size = MaxBatch

\* line 865: the generator yields the next batch
FetchBatch ==
    /\ pc = "fetch"
    /\ \E n \in 1..MaxBatch :
        /\ tiles_done + n <= MaxTiles
        /\ n_images' = n
    /\ i' = 0
    /\ pc' = "tile"
    /\ UNCHANGED <<extraVars, argVars, curr_image_name, mask, division_mask,
                   large_image_output_name, files, histVars, tumbleVars,
                   mainVars>>

\* the accumulator is never saved when the identifier changes
SaveOnChangeNever(image_name, curr) == FALSE

\* lines 880-881: the accumulator of `curr` is saved when the identifier
\* changes, unless no tile was seen before
SaveOnChange(image_name, curr) == image_name # curr /\ curr # ""

\* lines 878-905: one iteration of the loop over the batch's tiles
ProcessTile ==
    /\ pc = "tile"
    /\ \E path \in ImagePaths, score \in Scores(n_classes) :
        LET image_name == Basename(path)
            changed == image_name # curr_image_name
            final_height == IF padding = "VALID"
                            THEN shapes[image_name][1] - Shrink
                            ELSE shapes[image_name][1]
            final_width == IF padding = "VALID"
                           THEN shapes[image_name][2] - Shrink
                           ELSE shapes[image_name][2]
            tile == TileOf(score)
            mask0 == IF changed
                     THEN Zeros(final_height, final_width, n_classes)
                     ELSE mask
            division0 == IF changed
                         THEN Zeros(final_height, final_width, n_classes)
                         ELSE division_mask
            cover0 == IF changed
                      THEN [p \in Pix(final_height, final_width) |-> << >>]
                      ELSE cover
            saved == SaveOnChange(image_name, curr_image_name)
        IN \E h_1 \in 0..(final_height - NetOut(input_height)),
              w_1 \in 0..(final_width - NetOut(input_width)) :
            /\ files' = IF saved
                        THEN (large_image_output_name
                                :> FlushOnChange(mask, division_mask)) @@ files
                        ELSE files
            /\ persisted' = IF saved
                            THEN [event |-> "change",
                                  name |-> large_image_output_name,
                                  mask |-> mask,
                                  division_mask |-> ReplaceZeros(division_mask),
                                  cover |-> cover,
                                  image |-> FlushOnChange(mask, division_mask)]
                            ELSE persisted
            /\ closed' = IF saved THEN closed \cup {curr_image_name} ELSE closed
            /\ file_tiles' = IF saved
                             THEN (large_image_output_name :> acc_tiles)
                                    @@ file_tiles
                             ELSE file_tiles
            /\ curr_image_name' = image_name
            /\ large_image_output_name' =
                    IF changed THEN OutputName(image_name)
                    ELSE large_image_output_name
            /\ mask' = RemapMask(mask0, h_1, w_1, tile)
            /\ division_mask' = RemapDivision(division0, h_1, w_1, tile)
            /\ cover' = [p \in DOMAIN cover0 |->
                            IF <<p[1] - h_1, p[2] - w_1, 0>> \in DOMAIN tile
                            THEN Append(cover0[p], score)
                            ELSE cover0[p]]
            /\ acc_tiles' = IF changed THEN 1 ELSE acc_tiles + 1
            /\ names_seen' = Append(names_seen, image_name)
            /\ acc_flushed' = IF changed THEN -1 ELSE acc_flushed
    /\ tiles_done' = tiles_done + 1
    /\ i' = i + 1
    /\ pc' = IF i + 1 = n_images THEN "flush" ELSE "tile"
    /\ UNCHANGED <<extraVars, argVars, n_images, tumbleVars, mainVars>>

\* lines 907-914: after the batch's tiles, the live accumulator is saved
BatchEnd ==
    /\ pc = "flush"
    /\ division_mask' = ReplaceZeros(division_mask)
    /\ files' = (large_image_output_name
                    :> FlushAfterBatch(mask, division_mask)) @@ files
    /\ persisted' = [event |-> "batch",
                     name |-> large_image_output_name,
                     mask |-> mask,
                     division_mask |-> ReplaceZeros(division_mask),
                     cover |-> cover,
                     image |-> FlushAfterBatch(mask, division_mask)]
    /\ acc_flushed' = acc_tiles
    /\ file_tiles' = (large_image_output_name :> acc_tiles) @@ file_tiles
    /\ pc' = "fetch"
    /\ UNCHANGED <<extraVars, argVars, n_images, i, curr_image_name, mask,
                   large_image_output_name, cover, acc_tiles, closed,
                   tiles_done, names_seen, tumbleVars, mainVars>>

\* lines 916-920: the generator is exhausted, the loop is left
StreamEnd ==
    /\ pc = "fetch"
    /\ pc' = "done"
    /\ UNCHANGED <<extraVars, argVars, loopVars, histVars, tumbleVars,
                   mainVars>>

NextReasm == FetchBatch \/ ProcessTile \/ BatchEnd \/ StreamEnd

SpecReasm == InitReasm /\ [][NextReasm]_vars

\* ------------------------------------------------------------------------
\* Properties of the large_predict loop
\* ------------------------------------------------------------------------
\* the last save of an output: made on a change of identifier, or the last
\* one before the loop was left
FinalWrite ==
    \/ persisted.event = "change"
    \/ persisted.event = "batch" /\ pc = "done"

\* mask/division_mask at pixel p is the average of the two predictions there
AverageOfTwo(m, d, cov, p) ==
    \A k \in ClassesOf(m) :
        2 * m[<<p[1], p[2], k>>]
            = (cov[p][1][k + 1] + cov[p][2][k + 1]) * d[<<p[1], p[2], k>>]

\* C2: wherever two tiles of a source image overlap with different
\* predictions, the normalized value mask/division_mask behind the final
\* output is the average of the two predictions, for every batching.
C2_OverlapAverage ==
    FinalWrite =>
        \A p \in DOMAIN persisted.cover :
            (/\ Len(persisted.cover[p]) = 2
             /\ persisted.cover[p][1] # persisted.cover[p][2])
            => AverageOfTwo(persisted.mask, persisted.division_mask,
                            persisted.cover, p)

\* the class a tile's prediction is largest at (first maximum)
ScoreArgMax(score) ==
    CHOOSE k \in 1..Len(score) :
        /\ \A j \in 1..Len(score) : j < k => score[j] < score[k]
        /\ \A j \in 1..Len(score) : j > k => score[j] <= score[k]

\* C3: one non-overlapping tiling of a source image is persisted as the
\* per-pixel argmax of the covering tile's prediction.
C3_TilingReproducesArgmax ==
    (/\ FinalWrite
     /\ \A p \in DOMAIN persisted.cover : Len(persisted.cover[p]) = 1)
    => \A p \in DOMAIN persisted.cover :
            persisted.image[p][1] = ScoreArgMax(persisted.cover[p][1]) - 1

\* C4: an accumulator is flushed only when its image has no tile to come:
\* every flush of the live accumulator saw all the tiles it holds.
C4_FlushOnlyAtBoundary ==
    acc_flushed \in {-1, acc_tiles}

\* C5: the image persisted is the 3-channel 8-bit per-pixel argmax of
\* mask/division_mask, whichever event caused the flush.
C5_PersistedIsArgmax ==
    persisted.event # "none" =>
        persisted.image
            = Stack3(ArgMax(persisted.mask, persisted.division_mask))

\* a tile arrived for an identifier whose accumulator had been replaced
Ungrouped == curr_image_name \in closed

\* C6: a tile stream that is not grouped by identifier makes the loop fail.
C6_UngroupedStreamFails ==
    Ungrouped => pc = "failed"

\* the number of tiles at the end of `names` that have the identifier of
\* the last one
RECURSIVE RunLength(_)
RunLength(names) ==
    IF names = << >> THEN 0
    ELSE IF Len(names) = 1 THEN 1
    ELSE IF names[Len(names) - 1] # names[Len(names)] THEN 1
    ELSE 1 + RunLength(SubSeq(names, 1, Len(names) - 1))

\* the sum of the entries of class c of a list of predictions
RECURSIVE ScoreSum(_, _)
ScoreSum(list, c) ==
    IF list = << >> THEN 0
    ELSE Head(list)[c + 1] + ScoreSum(Tail(list), c)

C20_NoZeroDivisor ==
    persisted.event # "none" =>
        /\ \A x \in DOMAIN persisted.division_mask :
                persisted.division_mask[x] # 0
        /\ \A p \in DOMAIN persisted.cover :
                persisted.cover[p] = << >>
                    => persisted.image[p] = <<0, 0, 0>>

\* an accumulator was saved while one of its pixels was covered by no tile
C20_Witness ==
    /\ persisted.event # "none"
    /\ \E p \in DOMAIN persisted.cover : persisted.cover[p] = << >>
    /\ \E p \in DOMAIN persisted.cover : persisted.cover[p] # << >>

\* C21: whenever a tile has been added to the live accumulator, and at every
\* save before the zeros of the divisor are replaced, division_mask at each
\* pixel is the number of tiles of the current source image accumulated so
\* far that cover the pixel, however the tiles are split into batches.
C21_CoverageCount ==
    (pc \in {"tile", "flush"} /\ i > 0) =>
        \A x \in DOMAIN division_mask :
            division_mask[x] = Len(cover[<<x[1], x[2]>>])

\* the tiles of each identifier come one after the other
Grouped(names) ==
    \A a, b, c \in 1..Len(names) :
        (a < b /\ b < c /\ names[a] = names[c]) => names[b] = names[a]

\* the number of tiles of a stream that have the identifier `name`
TilesOf(names, name) == Cardinality({k \in 1..Len(names) : names[k] = name})

\* C22: when the loop has ended on a stream grouped by identifier, whatever
\* its split into batches, every source image that gave at least one tile
\* has an output file, and the last save of that file was made from an
\* accumulator holding all the tiles of the image.
C22_ReassemblyComplete ==
    (pc = "done" /\ Grouped(names_seen)) =>
        \A k \in 1..Len(names_seen) :
            LET name == names_seen[k]
            IN /\ OutputName(name) \in DOMAIN files
               /\ OutputName(name) \in DOMAIN file_tiles
               /\ file_tiles[OutputName(name)] = TilesOf(names_seen, name)

\* the loop ended on a grouped stream of two images, the tiles of the first
\* in two batches, the second starting in the middle of a batch
C22_Witness ==
    /\ pc = "done"
    /\ names_seen = <<"A", "A", "B">>
    /\ n_images = 2
    /\ Grouped(names_seen)

\* ------------------------------------------------------------------------
\* The orientation ensemble ("tumble" modes)
\* ------------------------------------------------------------------------
\* An image is [h, w, den, px]: pixel p has the value px[p]/den (one channel
\* stands for all: the transforms below act on every channel alike).

\* tf.image.rot90(image, 1): one counter-clockwise quarter turn
Rot90Once(img) ==
    [img EXCEPT !.h = img.w,
                !.w = img.h,
                !.px = [p \in Pix(img.w, img.h) |->
                            img.px[<<p[2], img.w - 1 - p[1]>>]]]

RECURSIVE Rot90Times(_, _)
Rot90Times(img, n) ==
    IF n = 0 THEN img ELSE Rot90Times(Rot90Once(img), n - 1)

\* tf.image.rot90(image, k): k counter-clockwise quarter turns, k modulo 4
rot90(img, k) == Rot90Times(img, k % 4)

\* tf.image.flip_left_right(image)
flip_left_right(img) ==
    [img EXCEPT !.px = [p \in Pix(img.h, img.w) |->
                            img.px[<<p[1], img.w - 1 - p[2]>>]]]

\* the two transforms applied to every image of a batch
Rot90Batch(batch, k) == [j \in 1..Len(batch) |-> rot90(batch[j], k)]
FlipBatch(batch) == [j \in 1..Len(batch) |-> flip_left_right(batch[j])]

\* tf.image.convert_image_dtype(inputs, tf.float32): uint8 v becomes v/255
convert_image_dtype(batch) ==
    [j \in 1..Len(batch) |-> [batch[j] EXCEPT !.den = batch[j].den * 255]]

\* lines 317-328: the batch and its 7 transformed copies, along axis 0
TumbleConcat(batch) ==
    LET flipped_inputs == FlipBatch(batch)
    IN batch
        \o Rot90Batch(batch, 1)
        \o Rot90Batch(batch, 2)
        \o Rot90Batch(batch, 3)
        \o flipped_inputs
        \o Rot90Batch(flipped_inputs, 1)
        \o Rot90Batch(flipped_inputs, 2)
        \o Rot90Batch(flipped_inputs, 3)

\* u_net on one image: the identity, or a function that is not equivariant
\* (it adds a bias that depends on the position)
NetOn(kind, img) ==
    IF kind = "identity" THEN img
    ELSE [img EXCEPT !.px = [p \in Pix(img.h, img.w) |->
                                img.px[p] + (p[1] * img.w + p[2]) * img.den]]

\* lines 356-367: u_net on the batch
u_net(kind, batch) == [j \in 1..Len(batch) |-> NetOn(kind, batch[j])]

\* pred_list with the first rotated output turned the wrong way (+1 for -1)
PredListWrongSign(nw) ==
    LET flipped_prediction == FlipBatch(SubSeq(nw, 5, Len(nw)))
        first == SubSeq(nw, 1, 4)
    IN <<first[1],
         rot90(first[2], 1),
         rot90(first[3], -2),
         rot90(first[4], -3),
         flipped_prediction[1],
         rot90(flipped_prediction[2], 1),
         rot90(flipped_prediction[3], -2),
         rot90(flipped_prediction[4], -1)>>

\* lines 410-422: flipped_prediction, network[:4] and pred_list
PredList(nw) ==
    LET flipped_prediction == FlipBatch(SubSeq(nw, 5, Len(nw)))
        first == SubSeq(nw, 1, 4)
    IN <<first[1],
         rot90(first[2], -1),
         rot90(first[3], -2),
         rot90(first[4], -3),
         flipped_prediction[1],
         rot90(flipped_prediction[2], 1),
         rot90(flipped_prediction[3], -2),
         rot90(flipped_prediction[4], -1)>>

RECURSIVE SumAt(_, _, _)
SumAt(list, p, n) ==
    IF n = 0 THEN 0 ELSE list[n].px[p] + SumAt(list, p, n - 1)

\* lines 424-427: tf.reduce_mean(tf.stack(pred_list), axis=0, keepdims=True)
ReduceMean(list) ==
    <<[h |-> list[1].h,
       w |-> list[1].w,
       den |-> list[1].den * Len(list),
       px |-> [p \in Pix(list[1].h, list[1].w) |-> SumAt(list, p, Len(list))]]>>

\* square uint8 images of side s: one marked pixel each, and one image whose
\* pixels are all different
SquareImages(s) ==
    {[h |-> s, w |-> s, den |-> 1,
      px |-> [p \in Pix(s, s) |-> IF p = q THEN 255 ELSE 0]] : q \in Pix(s, s)}
    \cup {[h |-> s, w |-> s, den |-> 1,
           px |-> [p \in Pix(s, s) |-> p[1] * s + p[2] + 1]]}

InitTumble ==
    /\ padding = "SAME"
    /\ n_classes = 2
    /\ shapes = << >>
    /\ LoopIdle
    /\ StreamIdle
    /\ ManifestIdle
    /\ TilingIdle
    /\ MetricIdle
    /\ MainIdle
    /\ mode \in {S_tumble_test, S_tumble_predict}
    /\ \E s \in 1..MaxSide, n \in 1..MaxN :
        /\ input_height = s
        /\ input_width = s
        /\ batch_size = n
        /\ originals \in [1..n -> SquareImages(s)]
    /\ net \in {"identity", "biased"}
    /\ inputs = originals
    /\ network = << >>
    /\ prediction_network = << >>
    /\ pc = "tumble"

\* lines 316-330: the 8 copies are built and converted to float
TumbleInputs ==
    /\ pc = "tumble"
    /\ inputs' = convert_image_dtype(TumbleConcat(inputs))
    /\ pc' = "u_net"
    /\ UNCHANGED <<extraVars, argVars, loopVars, histVars, mainVars, net,
                   originals, network,
                   prediction_network>>

\* lines 356-367: the network is applied to the inputs
RunNetwork ==
    /\ pc = "u_net"
    /\ network' = u_net(net, inputs)
    /\ pc' = "combine"
    /\ UNCHANGED <<extraVars, argVars, loopVars, histVars, mainVars, net,
                   originals, inputs,
                   prediction_network>>

\* lines 407-427: the outputs are turned back and averaged
TumbleCombine ==
    /\ pc = "combine"
    /\ network' = PredList(network)
    /\ prediction_network' = ReduceMean(PredList(network))
    /\ pc' = "combined"
    /\ UNCHANGED <<extraVars, argVars, loopVars, histVars, mainVars, net,
                   originals, inputs>>

NextTumble == TumbleInputs \/ RunNetwork \/ TumbleCombine

SpecTumble == InitTumble /\ [][NextTumble]_vars

\* two images hold the same values
SameImage(a, b) ==
    /\ a.h = b.h
    /\ a.w = b.w
    /\ \A p \in Pix(a.h, a.w) : a.px[p] * b.den = b.px[p] * a.den

\* C7: with one square image and the identity as network, each of the 8
\* outputs, turned back, is the original image, and so is their mean.
C7_RoundTrip ==
    (pc = "combined" /\ net = "identity" /\ Len(originals) = 1) =>
        /\ \A k \in 1..8 :
            SameImage(network[k], convert_image_dtype(originals)[1])
        /\ Len(prediction_network) = 1
        /\ SameImage(prediction_network[1], convert_image_dtype(originals)[1])

\* an image no quarter turn or flip maps to itself went through the ensemble
C7_Witness ==
    /\ pc = "combined"
    /\ net = "identity"
    /\ Len(originals) = 1
    /\ originals[1].h = 2
    /\ \A p, q \in Pix(2, 2) : p # q => originals[1].px[p] # originals[1].px[q]

\* the 8 outputs computed from image x alone, each turned back
EnsembleOf(kind, x) ==
    LET one == u_net(kind, convert_image_dtype(TumbleConcat(<<x>>)))
    IN <<one[1],
         rot90(one[2], -1),
         rot90(one[3], -2),
         rot90(one[4], -3),
         flip_left_right(one[5]),
         rot90(flip_left_right(one[6]), 1),
         rot90(flip_left_right(one[7]), -2),
         rot90(flip_left_right(one[8]), -1)>>

\* C8: a batch of N images gives N predictions, the i-th the mean of the 8
\* turned-back outputs computed from the i-th image only.
C8_OnePredictionPerImage ==
    pc = "combined" =>
        /\ Len(inputs) = 8 * Len(originals)
        /\ Len(prediction_network) = Len(originals)
        /\ \A j \in 1..Len(originals) :
            SameImage(prediction_network[j],
                      ReduceMean(EnsembleOf(net, originals[j]))[1])

\* ------------------------------------------------------------------------
\* main: choice of the stream layout, the gate and the step loops
\* ------------------------------------------------------------------------
\* Python's `sub in s` for strings
InStr(sub, s) ==
    \E k \in 0..(Len(s) - Len(sub)) : SubSeq(s, k + 1, k + Len(sub)) = sub

Modes == {S_train, S_test, S_predict, S_large_predict, S_tumble_test,
          S_tumble_predict}

\* lines 169-190: output_types
OutputTypes(m) ==
    IF m = S_train THEN <<"uint8", "float32", "float32">>
    ELSE IF InStr(S_test, m) THEN <<"uint8", "float64">>
    ELSE IF InStr(S_predict, m) THEN <<"uint8", "string">>
    ELSE IF m = S_large_predict THEN <<"uint8", "string", "int32", "int32">>
    ELSE << >>

\* lines 169-190: is_training
IsTraining(m) == m = S_train

\* lines 286-314: the names next_element is unpacked into
Unpacked(m) ==
    IF m = S_train THEN <<"inputs", "truth", "weights">>
    ELSE IF InStr(S_test, m) THEN <<"inputs", "truth">>
    ELSE IF InStr(S_predict, m) THEN <<"inputs", "image_names">>
    ELSE IF m = S_large_predict
        THEN <<"inputs", "large_image_path", "large_image_coords",
               "batch_shape">>
    ELSE << >>

\* the choice of the branch without the checkpoint conditions
RunBranchUngated(m, ckpt, n) ==
    IF n > 0
    THEN IF m = S_train THEN "train"
         ELSE IF InStr(S_test, m) THEN "test"
         ELSE IF InStr(S_predict, m) THEN "predict"
         ELSE IF m = S_large_predict THEN "large_predict"
         ELSE "none"
    ELSE "none"

\* lines 617-620, 710, 787, 838: the branch that runs
RunBranch(m, ckpt, n) ==
    IF n > 0
    THEN IF m = S_train THEN "train"
         ELSE IF InStr(S_test, m) /\ ckpt THEN "test"
         ELSE IF InStr(S_predict, m) /\ ckpt THEN "predict"
         ELSE IF m = S_large_predict /\ ckpt THEN "large_predict"
         ELSE "none"
    ELSE "none"

\* the k-th path of a corpus: names with one dot, two dots and no dot
PathNo(k) ==
    [dir |-> "in",
     name |-> IF k % 3 = 1 THEN <<ToString(k), "png">>
              ELSE IF k % 3 = 2 THEN <<ToString(k), "c", "png">>
              ELSE <<ToString(k)>>]

\* lines 824-828: the output file of an input path
\* ('.'.join(name.split('.')[:-1]) + '.tif', under prediction_output)
TifName(path) ==
    [dir |-> "prediction_output",
     name |-> (IF Len(path.name) = 1 THEN <<"">>
               ELSE SubSeq(path.name, 1, Len(path.name) - 1)) \o <<"tif">>]

InitMain ==
    /\ padding \in {"VALID", "SAME"}
    /\ n_classes = 2
    /\ \E th \in 1..MaxDim, tw \in 1..MaxDim :
          /\ input_height = th + (IF padding = "VALID" THEN Shrink ELSE 0)
          /\ input_width = tw + (IF padding = "VALID" THEN Shrink ELSE 0)
    /\ shapes = << >>
    /\ LoopIdle
    /\ StreamIdle
    /\ ManifestIdle
    /\ TilingIdle
    /\ MetricIdle
    /\ TumbleIdle
    /\ mode \in Modes
    /\ ckpt_exists \in BOOLEAN
    /\ \E n \in 0..MaxImages : image_path_list = [k \in 1..n |-> PathNo(k)]
    /\ batch_size \in 1..MaxN
    /\ IF mode = S_train
       THEN /\ number_of_steps \in 0..MaxSteps
            /\ save_summary_steps \in 1..MaxEvery
            /\ save_checkpoint_steps \in 1..MaxEvery
            /\ epochs \in {NoEpochs} \cup (0..MaxEpochs)
       ELSE /\ number_of_steps = 0
            /\ save_summary_steps = 1
            /\ save_checkpoint_steps = 1
            /\ epochs = NoEpochs
    /\ is_training = FALSE
    /\ output_types = << >>
    /\ unpacked = << >>
    /\ truth_shape = << >>
    /\ weights_shape = << >>
    /\ branch = "none"
    /\ dirs = {}
    /\ written = << >>
    /\ sess_runs = 0
    /\ restored = FALSE
    /\ raised = "none"
    /\ keep_going = FALSE
    /\ time_list = 0
    /\ cursor = 0
    /\ truth_seen = {}
    /\ all_true = << >>
    /\ iou_list = << >>
    /\ auc_list = << >>
    /\ f1s_list = << >>
    /\ reported = FALSE
    /\ train_i = -1
    /\ summaries = << >>
    /\ checkpoints = << >>
    /\ fault = "none"
    /\ pc = "start"

\* lines 283-284: epochs, when given, overrides number_of_steps
StepsOf(e, steps) ==
    IF e # NoEpochs THEN e * (Len(image_path_list) \div batch_size)
    ELSE steps

\* lines 336-338: the slice 92:(size - 92) of both spatial axes
Cropped(shape) == <<shape[1] - 2 * Margin, shape[2] - 2 * Margin>>

\* lines 332-350, resize left at its default False: the spatial size of
\* truth and of weights once the graph is built
CropTruth(shape, training) ==
    IF padding = "VALID" /\ training THEN Cropped(shape) ELSE shape

\* lines 169-190 and 283-352: the layout of the stream is chosen, the
\* number of steps settled, truth and weights cut to size
BuildGraph ==
    /\ pc = "start"
    /\ is_training' = IsTraining(mode)
    /\ output_types' = OutputTypes(mode)
    /\ unpacked' = Unpacked(mode)
    /\ truth_shape' = CropTruth(<<input_height, input_width>>, is_training')
    /\ weights_shape' = CropTruth(<<input_height, input_width>>, is_training')
    /\ number_of_steps' = StepsOf(epochs, number_of_steps)
    /\ pc' = "dispatch"
    /\ UNCHANGED <<extraVars, argVars, loopVars, histVars, tumbleVars, mode,
                   ckpt_exists, image_path_list, batch_size,
                   save_summary_steps, save_checkpoint_steps, epochs,
                   runVars, listVars>>

\* lines 617-620, 710, 787, 838: the branch that runs is chosen
Dispatch ==
    /\ pc = "dispatch"
    /\ branch' = RunBranch(mode, ckpt_exists, Len(image_path_list))
    /\ pc' = IF branch' = "none" THEN "exit" ELSE branch'
    /\ UNCHANGED <<extraVars, argVars, loopVars, histVars, tumbleVars, mainArgs,
                   graphVars, dirs, written, sess_runs, restored, raised,
                   keep_going, time_list, cursor, truth_seen,
                   listVars, reported,
                   train_i, summaries, checkpoints, fault>>

\* lines 622-663: the folders are made, the checkpoint restored if present
TrainStart ==
    /\ pc = "train"
    /\ dirs' = dirs \cup {"save_checkpoint_folder", "save_summary_folder"}
    /\ restored' = ckpt_exists
    /\ pc' = "train_loop"
    /\ UNCHANGED <<extraVars, argVars, loopVars, histVars, tumbleVars, mainArgs,
                   graphVars, branch, written, sess_runs, raised, keep_going,
                   time_list, cursor, truth_seen,
                   listVars, reported, train_i,
                   summaries, checkpoints, fault>>

\* lines 666-700: one training step
TrainStep ==
    /\ pc = "train_loop"
    /\ train_i + 1 < number_of_steps
    /\ train_i' = train_i + 1
    /\ sess_runs' = sess_runs + 1
    /\ LET summary == train_i' % save_summary_steps = 0 \/ train_i' = 1
           checkpoint == /\ summary
                         /\ \/ train_i' % save_checkpoint_steps = 0
                            \/ train_i' = 1
       IN /\ summaries' = IF summary THEN Append(summaries, train_i')
                          ELSE summaries
          /\ checkpoints' = IF checkpoint THEN Append(checkpoints, train_i')
                            ELSE checkpoints
    /\ UNCHANGED <<extraVars, argVars, loopVars, histVars, tumbleVars, mainArgs,
                   graphVars, pc, branch, dirs, written, restored, raised,
                   keep_going, time_list, cursor, truth_seen,
                   listVars, reported, fault>>

\* lines 702-708: the last summary and checkpoint, labelled with i
TrainFinish ==
    /\ pc = "train_loop"
    /\ train_i + 1 >= number_of_steps
    /\ IF train_i = -1
       THEN /\ raised' = "NameError"
            /\ UNCHANGED <<summaries, checkpoints>>
       ELSE /\ summaries' = Append(summaries, train_i)
            /\ checkpoints' = Append(checkpoints, train_i)
            /\ UNCHANGED raised
    /\ pc' = "exit"
    /\ UNCHANGED <<extraVars, argVars, loopVars, histVars, tumbleVars, mainArgs,
                   graphVars, branch, dirs, written, sess_runs, restored,
                   keep_going, time_list, cursor, truth_seen,
                   listVars, reported,
                   train_i, fault>>

\* the sizes the next batch of the stream can have (none: the stream is
\* exhausted); a last batch that is short may be yielded or dropped
BatchSizes ==
    LET left == Len(image_path_list) - cursor
    IN IF left >= batch_size THEN {batch_size}
       ELSE IF left > 0 THEN {left, 0}
       ELSE {0}

\* lines 717-730: the session is opened and the checkpoint restored
TestStart ==
    /\ pc = "test"
    /\ restored' = TRUE
    /\ keep_going' = TRUE
    /\ pc' = "test_loop"
    /\ UNCHANGED <<extraVars, argVars, loopVars, histVars, tumbleVars, mainArgs,
                   graphVars, branch, dirs, written, sess_runs, raised,
                   time_list, cursor, truth_seen,
                   listVars, reported, train_i,
                   summaries, checkpoints, fault>>

\* lines 752-760: the batches that get an entry in a per-batch metric list
\* (those with len(np.unique(a)) == 2), by their position in all_true
PerBatchList(truths) ==
    LET RECURSIVE Keep(_)
        Keep(k) ==
            IF k = 0 THEN << >>
            ELSE IF Cardinality(truths[k]) = 2 THEN Append(Keep(k - 1), k)
            ELSE Keep(k - 1)
    IN Keep(Len(truths))

\* lines 732-750: one pass of the test loop
TestStep ==
    /\ pc = "test_loop"
    /\ keep_going
    /\ \E n \in BatchSizes :
        \/ \* the batch is fetched and its truth and probabilities are kept
           /\ n > 0
           /\ \E classes \in {{0}, {1}, {0, 1}} :
                /\ truth_seen' = truth_seen \cup classes
                /\ all_true' = Append(all_true, classes)
           /\ sess_runs' = sess_runs + 1
           /\ time_list' = time_list + 1
           /\ cursor' = cursor + n
           /\ UNCHANGED <<keep_going, fault>>
        \/ \* fetching the batch fails: except: keep_going = False
           /\ n > 0
           /\ fault' \in {"unreadable image", "missing mask"}
           /\ keep_going' = FALSE
           /\ UNCHANGED <<truth_seen, all_true, sess_runs, time_list, cursor>>
        \/ \* the stream is exhausted: except: keep_going = False
           /\ n = 0
           /\ keep_going' = FALSE
           /\ UNCHANGED <<truth_seen, all_true, sess_runs, time_list, cursor,
                          fault>>
    /\ UNCHANGED <<extraVars, argVars, loopVars, histVars, tumbleVars, mainArgs,
                   graphVars, pc, branch, dirs, written, restored, raised,
                   reported, train_i, summaries, checkpoints, iou_list,
                   auc_list, f1s_list>>

\* lines 752-785: the per-batch lists are built, then the metrics over all
\* batches are computed and logged. roc_auc_score (line 766) raises a
\* ValueError unless both classes are present in all_true; np.quantile of an
\* empty list (line 781) raises an IndexError or gives nan, by the numpy build
TestReport ==
    /\ pc = "test_loop"
    /\ ~keep_going
    /\ iou_list' = PerBatchList(all_true)
    /\ auc_list' = PerBatchList(all_true)
    /\ f1s_list' = PerBatchList(all_true)
    /\ IF Cardinality(truth_seen) < 2
       THEN raised' = "ValueError" /\ UNCHANGED reported
       ELSE IF iou_list' = << >>
       THEN \/ raised' = "IndexError" /\ UNCHANGED reported
            \/ reported' = TRUE /\ UNCHANGED raised
       ELSE reported' = TRUE /\ UNCHANGED raised
    /\ pc' = "exit"
    /\ UNCHANGED <<extraVars, argVars, loopVars, histVars, tumbleVars, mainArgs,
                   graphVars, branch, dirs, written, sess_runs, restored,
                   keep_going, time_list, cursor, truth_seen, all_true,
                   train_i, summaries, checkpoints, fault>>

\* lines 788-806: the output folder is made, the checkpoint restored
PredictStart ==
    /\ pc = "predict"
    /\ dirs' = dirs \cup {"prediction_output"}
    /\ restored' = TRUE
    /\ keep_going' = TRUE
    /\ pc' = "predict_loop"
    /\ UNCHANGED <<extraVars, argVars, loopVars, histVars, tumbleVars, mainArgs,
                   graphVars, branch, written, sess_runs, raised, time_list,
                   cursor, truth_seen,
                   listVars, reported, train_i, summaries,
                   checkpoints, fault>>

\* lines 808-832: one pass of the predict loop
PredictStep ==
    /\ pc = "predict_loop"
    /\ keep_going
    /\ \E n \in BatchSizes :
        \/ \* the batch is fetched; its predictions are written one by one,
           \* and a failed write ends the loop: except: keep_going = False
           /\ n > 0
           /\ sess_runs' = sess_runs + 1
           /\ time_list' = time_list + 1
           /\ cursor' = cursor + n
           /\ LET shape0 == IF InStr(S_tumble, mode) THEN 1 ELSE n
              IN \E done \in 0..shape0 :
                    /\ written' = written \o
                            [k \in 1..done |->
                                TifName(image_path_list[cursor + k])]
                    /\ IF done < shape0
                       THEN fault' = "failed write" /\ keep_going' = FALSE
                       ELSE UNCHANGED <<fault, keep_going>>
        \/ \* fetching the batch fails: except: keep_going = False
           /\ n > 0
           /\ fault' = "unreadable image"
           /\ keep_going' = FALSE
           /\ UNCHANGED <<written, sess_runs, time_list, cursor>>
        \/ \* the stream is exhausted: except: keep_going = False
           /\ n = 0
           /\ keep_going' = FALSE
           /\ UNCHANGED <<written, sess_runs, time_list, cursor, fault>>
    /\ UNCHANGED <<extraVars, argVars, loopVars, histVars, tumbleVars, mainArgs,
                   graphVars, pc, branch, dirs, restored, raised, truth_seen,
                   listVars,
                   reported, train_i, summaries, checkpoints>>

\* lines 834-836: the average time is logged
PredictReport ==
    /\ pc = "predict_loop"
    /\ ~keep_going
    /\ reported' = TRUE
    /\ pc' = "exit"
    /\ UNCHANGED <<extraVars, argVars, loopVars, histVars, tumbleVars, mainArgs,
                   graphVars, branch, dirs, written, sess_runs, restored,
                   raised, keep_going, time_list, cursor, truth_seen,
                   listVars, train_i,
                   summaries, checkpoints, fault>>

Next ==
    \/ BuildGraph
    \/ Dispatch
    \/ TrainStart
    \/ TrainStep
    \/ TrainFinish
    \/ TestStart
    \/ TestStep
    \/ TestReport
    \/ PredictStart
    \/ PredictStep
    \/ PredictReport

Spec == InitMain /\ [][Next]_vars

\* C1: in large_predict mode with images and a checkpoint, the branch that
\* runs is the reassembly branch and the stream element is the 4-tuple
\* (image, identifier, tile origin, source shape).
C1_LargePredictBranch ==
    (/\ mode = S_large_predict
     /\ ckpt_exists
     /\ Len(image_path_list) > 0
     /\ pc \notin {"start", "dispatch"})
    => /\ branch = "large_predict"
       /\ Len(output_types) = 4
       /\ Len(unpacked) = 4

GatedModes == Modes \ {S_train}

C10_FailurePropagates ==
    (pc = "exit" /\ fault # "none") => raised = fault

\* C11: in the test and predict modes a loop that ended on the exhaustion of
\* the stream (no failure hit it) ends main without an exception and with
\* the results of the batches fetched before it reported: the metrics in
\* test mode, the average time in predict mode.
C11_ExhaustionReports ==
    (pc = "exit" /\ branch \in {"test", "predict"} /\ fault = "none")
    => /\ raised = "none"
       /\ reported

\* C12: in test mode, for any sequence of batches, the per-batch IOU, AUC
\* and F1 lists hold exactly one entry for each batch whose truth has both
\* classes and none for a batch with a single class, and the computation of
\* the metrics does not raise.
C12_SingleClassBatchSkipped ==
    (pc = "exit" /\ branch = "test" /\ fault = "none")
    => /\ \A l \in {iou_list, auc_list, f1s_list} :
            \A k \in 1..Len(all_true) :
                Cardinality({j \in 1..Len(l) : l[j] = k})
                    = IF Cardinality(all_true[k]) = 2 THEN 1 ELSE 0
       /\ raised = "none"

\* the file name without its directory and without its extension
StemOf(path) ==
    IF Len(path.name) = 1 THEN path.name
    ELSE SubSeq(path.name, 1, Len(path.name) - 1)

\* C16: in predict mode every input image of every fetched batch has exactly
\* one output file, in the order of the inputs, named by the base name of
\* the input followed by .tif, whether the name has no dot, one dot or
\* several; inputs with different base names have different output names.
C16_OneTifPerInput ==
    (mode = S_predict /\ branch = "predict" /\ fault = "none")
    => /\ Len(written) = cursor
       /\ \A k \in 1..Len(written) :
            written[k] = [dir |-> "prediction_output",
                          name |-> StemOf(image_path_list[k]) \o <<"tif">>]
       /\ \A k, l \in 1..Len(written) :
            StemOf(image_path_list[k]) # StemOf(image_path_list[l])
                => written[k] # written[l]

\* the steps up to the current one at which a list of saved steps has an entry
SavedAt(list) == {list[k] : k \in 1..Len(list)}

\* C17: during training a checkpoint is saved at exactly the steps i with
\* i % save_checkpoint_steps = 0 or i = 1, whatever save_summary_steps is,
\* and a summary is written at exactly the steps with
\* i % save_summary_steps = 0 or i = 1.
C17_CheckpointEverySteps ==
    pc = "train_loop"
    => \A step \in 0..train_i :
        /\ step \in SavedAt(checkpoints)
                <=> (step % save_checkpoint_steps = 0 \/ step = 1)
        /\ step \in SavedAt(summaries)
                <=> (step % save_summary_steps = 0 \/ step = 1)

\* ------------------------------------------------------------------------
\* The tfrecord stream, lines 192-240
\* ------------------------------------------------------------------------
\* everything but the stream
notStream == <<argVars, pc, loopVars, histVars, tumbleVars, mainVars,
               manifestVars, tilingVars, metricVars>>

Min(a, b) == IF a < b THEN a ELSE b

\* lines 207-213: the mask of a record, one-hot over the classes, for the
\* labels of its pixels
OneHot(labels) ==
    [x \in (1..Len(labels)) \X (0..(n_classes - 1)) |->
        IF labels[x[1]] = x[2] THEN 1 ELSE 0]

RECURSIVE SumOver(_, _)
SumOver(f, S) ==
    IF S = {} THEN 0
    ELSE LET x == CHOOSE y \in S : TRUE
         IN f[x] + SumOver(f, S \ {x})

\* tf.reduce_sum of a uint8 tensor: over all its entries, in uint8
reduce_sum(m) == SumOver(m, DOMAIN m) % UInt8Range

\* lines 218-219
predicate(rec) == reduce_sum(rec.mask) > 1

\* the records of a pass over the files taken in the order `order`
\* (line 223: interleave, whose cycle length of line 225 is 1 for fewer
\* than 20 files, reads the files one after the other)
RECURSIVE Interleave(_)
Interleave(order) ==
    IF order = << >> THEN << >>
    ELSE tfrecords[Head(order)] \o Interleave(Tail(order))

\* the orders list_files can return the files in: it shuffles the file
\* names unless told not to (line 221 leaves shuffle at its default)
FileOrders ==
    {o \in [1..Len(tfrecords) -> 1..Len(tfrecords)] :
        \A a, b \in 1..Len(tfrecords) : a # b => o[a] # o[b]}

\* a sequence without its j-th element
Without(seq, j) == SubSeq(seq, 1, j - 1) \o SubSeq(seq, j + 1, Len(seq))

\* the label sequences of the masks of the records: nondecreasing labels
MaskLabels(npix) ==
    {l \in [1..npix -> 0..(n_classes - 1)] :
        \A a, b \in 1..npix : a < b => l[a] <= l[b]}

InitStream ==
    /\ padding = "SAME"
    /\ n_classes = 2
    /\ input_height = 1
    /\ \E npix \in 1..MaxPix :
        /\ input_width = npix
        /\ \E nf \in 1..MaxFiles :
            \E labels \in [1..nf -> UNION {[1..k -> MaskLabels(npix)] :
                                             k \in 1..MaxRecords}] :
                /\ tfrecords =
                    [f \in 1..nf |->
                        [k \in 1..Len(labels[f]) |->
                            [file |-> f, no |-> k,
                             mask |-> OneHot(labels[f][k])]]]
                /\ image_path_list =
                    [f \in 1..nf |->
                        [dir |-> "in", name |-> <<f, "tfrecord">>]]
    /\ shapes = << >>
    /\ LoopIdle
    /\ TumbleIdle
    /\ ManifestIdle
    /\ TilingIdle
    /\ MetricIdle
    /\ RunIdle
    /\ mode \in {S_train, S_test}
    /\ batch_size \in 1..MaxN
    /\ truth_only \in BOOLEAN
    /\ passes = 0
    /\ pass_left = << >>
    /\ shuffle_buffer = << >>
    /\ cur_batch = << >>
    /\ batch_buffer = << >>
    /\ yielded = << >>
    /\ exhausted = FALSE
    /\ kept = {}
    /\ dropped = {}
    /\ pc = "stream"

\* lines 221-228: a pass over the files starts; in train mode (repeat) a
\* new one starts whenever the last is read
ListFiles ==
    /\ pass_left = << >>
    /\ passes = 0 \/ (mode = S_train /\ passes < MaxPasses)
    /\ \E order \in FileOrders : pass_left' = Interleave(order)
    /\ passes' = passes + 1
    /\ UNCHANGED <<notStream, tfrecords, truth_only, shuffle_buffer,
                   cur_batch, batch_buffer, yielded, exhausted, kept,
                   dropped>>

\* line 229: in train mode the next record goes into the shuffle buffer
ShuffleRecords ==
    /\ mode = S_train
    /\ pass_left # << >>
    /\ Len(shuffle_buffer) < Len(image_path_list)
    /\ shuffle_buffer' = Append(shuffle_buffer, Head(pass_left))
    /\ pass_left' = Tail(pass_left)
    /\ UNCHANGED <<notStream, tfrecords, truth_only, passes, cur_batch,
                   batch_buffer, yielded, exhausted, kept, dropped>>

\* lines 230-233: the record `rec` is parsed, filtered if truth_only, and
\* added to the batch; a full batch goes on
Batched(rec) ==
    IF truth_only /\ ~predicate(rec)
    THEN /\ dropped' = dropped \cup {rec}
         /\ UNCHANGED <<kept, cur_batch, batch_buffer, yielded>>
    ELSE /\ kept' = kept \cup {rec}
         /\ UNCHANGED dropped
         /\ IF Len(cur_batch) + 1 < batch_size
            THEN /\ cur_batch' = Append(cur_batch, rec)
                 /\ UNCHANGED <<batch_buffer, yielded>>
            ELSE /\ cur_batch' = << >>
                 /\ IF mode = S_train
                    THEN /\ batch_buffer' =
                                Append(batch_buffer, Append(cur_batch, rec))
                         /\ UNCHANGED yielded
                    ELSE /\ yielded' =
                                Append(yielded, Append(cur_batch, rec))
                         /\ UNCHANGED batch_buffer

\* lines 229-233: the next record is taken, from the shuffle buffer (any of
\* its records, once it is full) in train mode, from the files otherwise
TakeRecord ==
    /\ ~exhausted
    /\ IF mode = S_train
       THEN /\ Len(shuffle_buffer) = Len(image_path_list)
            /\ Len(batch_buffer) < Min(BufferSize, MaxBuffer)
            /\ \E j \in 1..Len(shuffle_buffer) :
                /\ shuffle_buffer' = Without(shuffle_buffer, j)
                /\ Batched(shuffle_buffer[j])
            /\ UNCHANGED pass_left
       ELSE /\ pass_left # << >>
            /\ pass_left' = Tail(pass_left)
            /\ Batched(Head(pass_left))
            /\ UNCHANGED shuffle_buffer
    /\ UNCHANGED <<notStream, tfrecords, truth_only, passes, exhausted>>

\* lines 235-238: in train mode get_next returns any batch of the full
\* shuffle buffer of batches
ShuffleBatches ==
    /\ mode = S_train
    /\ Len(batch_buffer) = Min(BufferSize, MaxBuffer)
    /\ Len(yielded) < MaxYield
    /\ \E j \in 1..Len(batch_buffer) :
        /\ yielded' = Append(yielded, batch_buffer[j])
        /\ batch_buffer' = Without(batch_buffer, j)
    /\ UNCHANGED <<notStream, tfrecords, truth_only, passes, pass_left,
                   shuffle_buffer, cur_batch, exhausted, kept, dropped>>

\* lines 233, 238: the files are read and not repeated: get_next returns
\* the last, short batch if there is one, and signals the end after it
EndOfStream ==
    /\ mode # S_train
    /\ passes > 0
    /\ pass_left = << >>
    /\ ~exhausted
    /\ IF cur_batch # << >>
       THEN /\ yielded' = Append(yielded, cur_batch)
            /\ cur_batch' = << >>
            /\ UNCHANGED exhausted
       ELSE /\ exhausted' = TRUE
            /\ UNCHANGED <<yielded, cur_batch>>
    /\ UNCHANGED <<notStream, tfrecords, truth_only, passes, pass_left,
                   shuffle_buffer, batch_buffer, kept, dropped>>

NextStream ==
    \/ ListFiles
    \/ ShuffleRecords
    \/ TakeRecord
    \/ ShuffleBatches
    \/ EndOfStream

SpecStream == InitStream /\ [][NextStream]_vars

\* the positive (non-background) pixels of a record's mask
Positives(rec) ==
    {x \in DOMAIN rec.mask : x[2] # 0 /\ rec.mask[x] # 0}

\* C13: with truth_only the stream drops a record whose mask has no positive
\* pixel and keeps a record with at least one; without truth_only it drops
\* no record.
C13_TruthOnlyFilter ==
    /\ \A rec \in dropped : truth_only /\ Positives(rec) = {}
    /\ truth_only => \A rec \in kept : Positives(rec) # {}

\* the records of the files in the order of the files
Corpus == Interleave([f \in 1..Len(tfrecords) |-> f])

RECURSIVE Flat(_)
Flat(batches) ==
    IF batches = << >> THEN << >>
    ELSE Head(batches) \o Flat(Tail(batches))

\* C14: in train mode the stream never signals its end; in test mode the
\* files are read once, in their order, every record is yielded exactly
\* once, and the end is signalled after the last.
C14_ExhaustionByMode ==
    /\ mode = S_train => ~exhausted
    /\ mode = S_test =>
        /\ passes <= 1
        /\ Len(Flat(yielded)) <= Len(Corpus)
        /\ Flat(yielded) = SubSeq(Corpus, 1, Len(Flat(yielded)))
        /\ exhausted => Flat(yielded) = Corpus

\* ------------------------------------------------------------------------
\* The csv manifest, lines 152-161
\* ------------------------------------------------------------------------
\* everything but the manifest and the list built from it
notManifest == <<argVars, loopVars, histVars, tumbleVars, mode, ckpt_exists,
                 batch_size, number_of_steps, save_summary_steps,
                 save_checkpoint_steps, epochs, graphVars, runVars, listVars,
                 streamVars, tilingVars, metricVars>>

Whitespace == {" ", "\n"}

\* str.strip(): the line without its leading and trailing whitespace
RECURSIVE strip(_)
strip(line) ==
    IF line = << >> THEN line
    ELSE IF Head(line) \in Whitespace THEN strip(Tail(line))
    ELSE IF line[Len(line)] \in Whitespace
        THEN strip(SubSeq(line, 1, Len(line) - 1))
    ELSE line

\* str.split(sep): the fields between the separators, empty ones included
RECURSIVE split(_, _)
split(line, sep) ==
    IF \A j \in 1..Len(line) : line[j] # sep THEN <<line>>
    ELSE LET j == CHOOSE k \in 1..Len(line) :
                    /\ line[k] = sep
                    /\ \A l \in 1..(k - 1) : line[l] # sep
         IN <<SubSeq(line, 1, j - 1)>>
                \o split(SubSeq(line, j + 1, Len(line)), sep)

\* the first line of a manifest
Header == <<"n", ",", "p", ",", "u", "\n">>

\* first lines: a header, and a line that has the form of a selected row
FirstLines == {Header, <<"0", ",", "h", ",", "1", "\n">>}

\* the lines a manifest is made of: well-formed rows that are selected or
\* not, rows with two and with four fields, and an empty line
Rows ==
    {<<"7", ",", "a", ",", "1", "\n">>,
     <<"8", ",", "b", ",", "1", "\n">>,
     <<"9", ",", "a", ",", "0", "\n">>,
     <<"7", ",", "a", "\n">>,
     <<"7", ",", "a", ",", "1", ",", "1", "\n">>,
     <<"\n">>}

InitManifest ==
    /\ padding = "SAME"
    /\ n_classes = 2
    /\ input_height = 1
    /\ input_width = 1
    /\ shapes = << >>
    /\ LoopIdle
    /\ TumbleIdle
    /\ StreamIdle
    /\ TilingIdle
    /\ MetricIdle
    /\ RunIdle
    /\ mode = S_train
    /\ batch_size = 1
    /\ \E n \in 0..MaxRows : \E rows \in [1..n -> Rows] :
            \E first \in FirstLines : lines = <<first>> \o rows
    \* line 150: the list globbed from dataset_dir, if that is given
    /\ image_path_list \in {<< >>, <<<<"g">>>>}
    /\ row = 0
    /\ pc = "open"

\* lines 153-155: the file is read and the list started anew
OpenManifest ==
    /\ pc = "open"
    /\ image_path_list' = << >>
    /\ row' = 1
    /\ pc' = "csv"
    /\ UNCHANGED <<notManifest, lines>>

\* a row with three fields or more is kept
KeepsLongRows(tmp) == Len(tmp) >= 3 /\ tmp[3] = <<"1">>

\* lines 158-159: the rows whose path is kept
Keeps(tmp) == Len(tmp) = 3 /\ tmp[3] = <<"1">>

\* lines 156-160: one row after the header is read
ReadRow ==
    /\ pc = "csv"
    /\ row < Len(lines)
    /\ LET tmp == split(strip(lines[row + 1]), ",")
       IN image_path_list' =
            IF Keeps(tmp)
            THEN Append(image_path_list, tmp[2])
            ELSE image_path_list
    /\ row' = row + 1
    /\ UNCHANGED <<notManifest, pc, lines>>

\* line 161: list(set(image_path_list)), in the order the set gives
Deduplicate ==
    /\ pc = "csv"
    /\ row >= Len(lines)
    /\ LET paths == {image_path_list[k] : k \in 1..Len(image_path_list)}
       IN \E l \in [1..Cardinality(paths) -> paths] :
            /\ \A a, b \in DOMAIN l : a # b => l[a] # l[b]
            /\ image_path_list' = l
    /\ pc' = "listed"
    /\ UNCHANGED <<notManifest, lines, row>>

NextManifest ==
    \/ OpenManifest
    \/ ReadRow
    \/ Deduplicate

SpecManifest == InitManifest /\ [][NextManifest]_vars

\* a line that does not have exactly three comma-separated fields
Malformed(line) == Len(split(strip(line), ",")) # 3

\* C15: a row after the header that is malformed is fatal: no image list is
\* built from a manifest that has one.
C15_MalformedRowFatal ==
    pc = "listed" => \A k \in 2..Len(lines) : ~Malformed(lines[k])

\* the fields of the k-th line of the manifest
FieldsOf(k) == split(strip(lines[k]), ",")

\* the paths a manifest selects: the second fields of the lines after the
\* first that have exactly three fields, the third being 1
Selected ==
    {FieldsOf(k)[2] : k \in {j \in 2..Len(lines) :
                                /\ Len(FieldsOf(j)) = 3
                                /\ FieldsOf(j)[3] = <<"1">>}}

notTiling == <<argVars, loopVars, histVars, tumbleVars, mainVars, streamVars,
               manifestVars, metricVars>>

\* the step from one tile origin to the next: the size of the valid output
\* of a tile
Stride(tile_dimension, padding_mode) ==
    IF padding_mode = "VALID" THEN tile_dimension - Shrink
    ELSE tile_dimension

\* the tile origins along one axis: steps of the stride from 0, the last
\* one clamped to image_dimension - tile_dimension
Origins(image_dimension, tile_dimension, padding_mode) ==
    LET stride == Stride(tile_dimension, padding_mode)
        last == image_dimension - tile_dimension
        steps == (last + stride - 1) \div stride
    IN [k \in 1..(steps + 1) |-> Min((k - 1) * stride, last)]

\* the ordered tile origins of an image, row by row
tiles_for(height, width, tile_height, tile_width, padding_mode) ==
    LET rows == Origins(height, tile_height, padding_mode)
        cols == Origins(width, tile_width, padding_mode)
    IN [k \in 1..(Len(rows) * Len(cols)) |->
            <<rows[((k - 1) \div Len(cols)) + 1],
              cols[((k - 1) % Len(cols)) + 1]>>]

InitTiling ==
    /\ padding \in {"VALID", "SAME"}
    /\ n_classes = 2
    /\ \E th \in 1..MaxDim, tw \in 1..MaxDim :
        /\ input_height = th + (IF padding = "VALID" THEN Shrink ELSE 0)
        /\ input_width = tw + (IF padding = "VALID" THEN Shrink ELSE 0)
    /\ \E eh \in 0..MaxExtra, ew \in 0..MaxExtra :
        large_shape = <<input_height + eh, input_width + ew>>
    /\ shapes = << >>
    /\ LoopIdle
    /\ TumbleIdle
    /\ StreamIdle
    /\ ManifestIdle
    /\ MetricIdle
    /\ MainIdle
    /\ mode = S_large_predict
    /\ batch_size = 1
    /\ coords = << >>
    /\ pc = "tiling"

\* the next tile origin is yielded
YieldTile ==
    /\ pc = "tiling"
    /\ LET all == tiles_for(large_shape[1], large_shape[2], input_height,
                            input_width, padding)
       IN /\ Len(coords) < Len(all)
          /\ coords' = Append(coords, all[Len(coords) + 1])
    /\ UNCHANGED <<notTiling, pc, large_shape>>

\* the last tile origin has been yielded
TilesEnd ==
    /\ pc = "tiling"
    /\ Len(coords) = Len(tiles_for(large_shape[1], large_shape[2],
                                   input_height, input_width, padding))
    /\ pc' = "tiled"
    /\ UNCHANGED <<notTiling, large_shape, coords>>

NextTiling ==
    \/ YieldTile
    \/ TilesEnd

SpecTiling == InitTiling /\ [][NextTiling]_vars

\* the output pixels the network gives for the tile at `origin`
ValidRegion(origin) ==
    {p \in Pix(NetOut(large_shape[1]), NetOut(large_shape[2])) :
        /\ origin[1] <= p[1]
        /\ p[1] < origin[1] + NetOut(input_height)
        /\ origin[2] <= p[2]
        /\ p[2] < origin[2] + NetOut(input_width)}

\* C18: every tile yielded lies inside the image, and once all tiles are
\* yielded every pixel of the output image is in the valid output region
\* of at least one of them, for either padding and any image at least as
\* large as the tile.
C18_TilesCoverOutput ==
    /\ \A k \in 1..Len(coords) :
        /\ coords[k][1] >= 0
        /\ coords[k][1] + input_height <= large_shape[1]
        /\ coords[k][2] >= 0
        /\ coords[k][2] + input_width <= large_shape[2]
    /\ pc = "tiled" =>
        \A p \in Pix(NetOut(large_shape[1]), NetOut(large_shape[2])) :
            \E k \in 1..Len(coords) : p \in ValidRegion(coords[k])

\* all tiles of a VALID-padded image are yielded, the last ones of both
\* axes clamped so that they overlap their neighbours
C18_Witness ==
    /\ pc = "tiled"
    /\ padding = "VALID"
    /\ \E k, l \in 1..Len(coords) :
        /\ coords[k][1] < coords[l][1]
        /\ coords[k][2] < coords[l][2]
        /\ ValidRegion(coords[k]) \cap ValidRegion(coords[l]) # {}

\* C23: train mode with a corpus that is not empty ends for every
\* number_of_steps >= 0, given or derived from epochs: the training
\* operation has run number_of_steps times, and one last summary and one
\* last checkpoint were written after it, labelled with the last step.
C23_TrainRunsAllSteps ==
    (pc = "exit" /\ branch = "train") =>
        /\ raised = "none"
        /\ sess_runs = number_of_steps
        /\ summaries # << >>
        /\ summaries[Len(summaries)] = train_i
        /\ checkpoints # << >>
        /\ checkpoints[Len(checkpoints)] = train_i
        /\ number_of_steps > 0 => train_i = number_of_steps - 1

\* the modes whose graph compares truth with the output of the network
ComparesTruth(m) == m = S_train \/ InStr(S_test, m)

\* C25: once the graph is built in a mode that compares truth with the
\* output of the network (train and the test modes), under VALID padding
\* truth and weights have the spatial size of the network output,
\* (input_height - 184, input_width - 184); under SAME padding without
\* resize they keep the size of the input.
C25_TruthMatchesOutput ==
    (pc # "start" /\ ComparesTruth(mode)) =>
        /\ padding = "VALID" =>
            /\ truth_shape = <<NetOut(input_height), NetOut(input_width)>>
            /\ weights_shape = <<NetOut(input_height), NetOut(input_width)>>
            /\ truth_shape = <<input_height - 184, input_width - 184>>
        /\ padding = "SAME" =>
            /\ truth_shape = <<input_height, input_width>>
            /\ weights_shape = <<input_height, input_width>>

\* ------------------------------------------------------------------------
\* The binarization handed to the 2-class metrics, lines 429-442, at one
\* pixel: prediction_network holds the pixel's class scores, truth its
\* one-hot truth
\* ------------------------------------------------------------------------
\* everything but the binarization
notMetric == <<padding, input_height, input_width, shapes, loopVars, histVars,
               net, originals, inputs, network, mainVars, streamVars,
               manifestVars, tilingVars>>

\* the one-hot vector of class c among n classes
OneHotOf(c, n) == [k \in 1..n |-> IF k = c + 1 THEN 1 ELSE 0]

\* tf.argmax(v, axis=-1) at one pixel: the index of the first maximum
argmax(v) ==
    CHOOSE k \in 0..(Len(v) - 1) :
        /\ \A j \in 0..(Len(v) - 1) : j < k => v[j + 1] < v[k + 1]
        /\ \A j \in 0..(Len(v) - 1) : j > k => v[j + 1] <= v[k + 1]

\* tf.where(condition, tf.zeros_like(x), x) at one pixel
where_zeros(condition, x) == IF condition THEN 0 ELSE x

\* a condition that never replaces the argmax
ClassTwoNever(p) == FALSE

\* line 435: prediction_network[:,:,:,2] > prediction_network[:,:,:,1]
ClassTwoWins(p) == p[3] > p[2]

\* line 440: truth[:,:,:,2] == 1
TruthIsTwo(t) == t[3] = 1

InitMetric ==
    /\ padding = "SAME"
    /\ input_height = 1
    /\ input_width = 1
    /\ shapes = << >>
    /\ LoopIdle
    /\ StreamIdle
    /\ ManifestIdle
    /\ TilingIdle
    /\ MainIdle
    /\ mode = S_train
    /\ batch_size = 1
    /\ net = "none"
    /\ originals = << >>
    /\ inputs = << >>
    /\ network = << >>
    /\ n_classes \in {2, 3}
    /\ prediction_network \in [1..n_classes -> 0..MaxScore]
    /\ \E c \in Classes(n_classes) : truth = OneHotOf(c, n_classes)
    /\ binarized_network = NotSet
    /\ binarized_truth = NotSet
    /\ pc = "argmax"

\* lines 430-431, and 433-434 with 438-439: the argmax over the classes
ArgMaxStep ==
    /\ pc = "argmax"
    /\ binarized_network' = argmax(prediction_network)
    /\ binarized_truth' = argmax(truth)
    /\ pc' = IF n_classes = 3 THEN "where" ELSE "binarized"
    /\ UNCHANGED <<notMetric, n_classes, prediction_network, truth>>

\* lines 435-437 and 440-442: class 2 is sent to 0 when n_classes is 3
WhereStep ==
    /\ pc = "where"
    /\ binarized_network' = where_zeros(ClassTwoWins(prediction_network),
                                        binarized_network)
    /\ binarized_truth' = where_zeros(TruthIsTwo(truth), binarized_truth)
    /\ pc' = "binarized"
    /\ UNCHANGED <<notMetric, n_classes, prediction_network, truth>>

NextMetric ==
    \/ ArgMaxStep
    \/ WhereStep

SpecMetric == InitMetric /\ [][NextMetric]_vars

\* class 1 has the largest score, the first index winning a tie
ClassOneIsArgmax(p) == p[2] > p[1] /\ p[2] >= p[3]

\* C26: for n_classes 2 and 3 and any class scores of a pixel, the
\* binarized prediction and the binarized truth handed to the 2-class
\* metrics are 0 or 1; for n_classes = 3 the binarized prediction is 1
\* exactly when class 1 is the argmax of the scores (the first index wins
\* ties), and the binarized truth is 1 exactly when the truth class is 1.
C26_BinarizedValues ==
    pc = "binarized" =>
        /\ binarized_network \in {0, 1}
        /\ binarized_truth \in {0, 1}
        /\ n_classes = 3 =>
            /\ (binarized_network = 1) <=> ClassOneIsArgmax(prediction_network)
            /\ (binarized_truth = 1) <=> (truth = OneHotOf(1, 3))

\* three classes, classes 1 and 2 tied for the largest score and a truth of
\* class 2: the prediction is binarized to 1, the truth to 0
C26_Witness ==
    /\ pc = "binarized"
    /\ n_classes = 3
    /\ prediction_network = <<0, 2, 2>>
    /\ truth = OneHotOf(2, 3)
    /\ binarized_network = 1
    /\ binarized_truth = 0

====
